---- MODULE Spec2Model ----
(***************************************************************************)
(* StreamCache (src/lib.rs): a table shared by a one-shot fetch task, a    *)
(* subscribe task and readers calling get, all serialised by one Mutex.    *)
(***************************************************************************)
EXTENDS Integers, Sequences, FiniteSets, TLC

(* ---------------------------------------------------------------------- *)
(* Bounds of the model                                                     *)
(* ---------------------------------------------------------------------- *)

\* Longest stream an enumerated Api yields.
MaxStream == 2

\* Cities and temperatures the enumerated Apis draw from.
ApiCities == {"Paris", "Riga"}
ApiTemperatures == {19, 20}

\* The same for the Apis of the specification with fairness.
MaxFairStream == 1
FairCities == {"Paris"}

(* ---------------------------------------------------------------------- *)
(* Domain                                                                  *)
(* ---------------------------------------------------------------------- *)

City == {"Berlin", "London", "Paris", "Riga", "Tallin"}

\* Result<(City, Temperature), String> items of the stream.
OkUpdate(city, temperature) == [ok |-> TRUE, city |-> city, temperature |-> temperature]
ErrUpdate == [ok |-> FALSE, city |-> "", temperature |-> 0]

\* Result<HashMap<City, Temperature>, String> of fetch.
OkFetch(data) == [ok |-> TRUE, data |-> data]
ErrFetch == [ok |-> FALSE, data |-> [c \in {} |-> 0]]

\* Option<u64> of get.
Some(v) == [some |-> TRUE, value |-> v]
None == [some |-> FALSE, value |-> 0]

\* HashMap::new()
EmptyMap == [c \in {} |-> 0]

\* All maps from a subset of cities to temperatures.
Maps(cities, temperatures) ==
    UNION {[d -> temperatures] : d \in SUBSET cities}

\* All sequences over S of length at most n.
SeqUpTo(S, n) == UNION {[1..m -> S] : m \in 0..n}

(* ---------------------------------------------------------------------- *)
(* The Api implementations the cache is constructed with                   *)
(* ---------------------------------------------------------------------- *)

\* tests::TestApi: fetch waits for the signal and returns Berlin and Paris;
\* subscribe yields four updates and then stays pending forever.
TestApi ==
    [fetch |-> OkFetch([c \in {"Berlin", "Paris"} |-> IF c = "Berlin" THEN 29 ELSE 31]),
     subscribe |-> << OkUpdate("London", 27), OkUpdate("Paris", 32),
                      OkUpdate("Riga", 20), OkUpdate("Riga", 19) >>,
     ends |-> FALSE,
     signalled |-> TRUE]

\* Arbitrary implementations of the trait: fetch succeeds with some map or
\* fails, the stream yields some finite sequence of at most n results and
\* then ends or stays pending.
ApiFamily(cities, temperatures, n) ==
    { [fetch |-> f, subscribe |-> s, ends |-> e, signalled |-> FALSE] :
        f \in {ErrFetch} \cup {OkFetch(m) : m \in Maps(cities, temperatures)},
        s \in SeqUpTo({ErrUpdate} \cup {OkUpdate(c, t) : c \in cities, t \in temperatures}, n),
        e \in BOOLEAN }

Apis == ApiFamily(ApiCities, ApiTemperatures, MaxStream) \cup {TestApi}

FairApis == ApiFamily(FairCities, ApiTemperatures, MaxFairStream) \cup {TestApi}

(* ---------------------------------------------------------------------- *)
(* State                                                                   *)
(* ---------------------------------------------------------------------- *)

VARIABLES
    api,            \* the Api given to new
    newPc,          \* position of the caller inside StreamCache::new
    results,        \* the HashMap behind the Mutex
    lock,           \* holder of the Mutex guard: "none", "fetch", "subscribe", "get"
    poisoned,       \* the Mutex poison flag
    signal,         \* TestApi.signal holds a permit
    fetchPc,        \* position of the task spawned by fetch_in_background
    fetchCalls,     \* number of invocations of api.fetch
    initial_data,   \* entries of the fetch result the for loop has not visited yet
    subPc,          \* position of the task spawned by subscribe_in_background
    subscribeCalls, \* number of invocations of api.subscribe
    updates,        \* the items the stream has not yielded yet
    update,         \* the item bound by `while let Some(update)`
    getPc,          \* position of a caller of get
    getKey,         \* key argument of the get call
    getRet,         \* value returned by the last completed get
    callPc,         \* position of a caller of the public update_in_background
    fetchPc2,       \* position of the fetch task that call spawns
    initial_data2,  \* entries that task's for loop has not visited yet
    subPc2,         \* position of the subscribe task that call spawns
    updates2,       \* the items that task's stream has not yielded yet
    update2         \* the item bound by that task's `while let Some(update)`

vars == << api, newPc, results, lock, poisoned, signal, fetchPc, fetchCalls,
           initial_data, subPc, subscribeCalls, updates, update, getPc, getKey, getRet,
           callPc, fetchPc2, initial_data2, subPc2, updates2, update2 >>

\* The values the state ranges over.
TypeOK ==
    /\ api \in Apis
    /\ newPc \in {"constructed", "fetch_spawned", "subscribe_spawned", "returned"}
    /\ DOMAIN results \subseteq City
    /\ \A c \in DOMAIN results : results[c] \in Nat
    /\ lock \in {"none", "fetch", "subscribe", "get", "fetch2", "subscribe2"}
    /\ poisoned \in BOOLEAN
    /\ signal \in BOOLEAN
    /\ fetchPc \in {"unspawned", "spawned", "awaiting", "lock", "inserting", "done", "panicked"}
    /\ fetchCalls \in Nat
    /\ initial_data \subseteq City
    /\ subPc \in {"unspawned", "spawned", "subscribing", "next", "lock", "inserting", "done",
                  "panicked"}
    /\ subscribeCalls \in Nat
    /\ \E n \in 0..Len(api.subscribe) :
          updates = SubSeq(api.subscribe, n + 1, Len(api.subscribe))
    /\ update.ok \in BOOLEAN
    /\ getPc \in {"idle", "lock", "reading", "returned", "panicked"}
    /\ getKey \in City
    /\ getRet.some \in BOOLEAN
    /\ callPc \in {"idle", "fetch_spawned", "returned"}
    /\ fetchPc2 \in {"unspawned", "spawned", "awaiting", "lock", "inserting", "done", "panicked"}
    /\ initial_data2 \subseteq City
    /\ subPc2 \in {"unspawned", "spawned", "subscribing", "next", "lock", "inserting", "done",
                   "panicked"}
    /\ \E n \in 0..Len(api.subscribe) :
          updates2 = SubSeq(api.subscribe, n + 1, Len(api.subscribe))
    /\ update2.ok \in BOOLEAN

againVars == << callPc, fetchPc2, initial_data2, subPc2, updates2, update2 >>
newVars == << api, newPc, againVars >>
tableVars == << results, lock, poisoned >>
fetchVars == << fetchPc, fetchCalls, initial_data >>
subVars == << subPc, subscribeCalls, updates, update, signal >>
getVars == << getPc, getKey, getRet >>

(* ---------------------------------------------------------------------- *)
(* Table operations                                                        *)
(* ---------------------------------------------------------------------- *)

\* Mutation of Insert: an existing entry is kept, as or_insert would.
Insert_KeepExisting(cache, city, temperature) ==
    [c \in DOMAIN cache \cup {city} |-> IF c \in DOMAIN cache THEN cache[c] ELSE temperature]

\* Mutation of Insert: the entry goes into a new map, the other entries are lost.
Insert_Fresh(cache, city, temperature) ==
    [c \in {city} |-> temperature]

\* HashMap::insert: unconditional overwrite.
Insert(cache, city, temperature) ==
    [c \in DOMAIN cache \cup {city} |-> IF c = city THEN temperature ELSE cache[c]]

\* Mutation of EntryOrInsert: the commented-out cache.insert(city, temperature).
EntryOrInsert_Overwrite(cache, city, temperature) ==
    [c \in DOMAIN cache \cup {city} |-> IF c = city THEN temperature ELSE cache[c]]

\* Mutation of EntryOrInsert: the test is inverted, only a present key is written.
EntryOrInsert_Inverted(cache, city, temperature) ==
    IF city \in DOMAIN cache
    THEN [c \in DOMAIN cache |-> IF c = city THEN temperature ELSE cache[c]]
    ELSE cache

\* cache.entry(city).or_insert(temperature): write only when the key is absent.
EntryOrInsert(cache, city, temperature) ==
    IF city \in DOMAIN cache THEN cache ELSE Insert(cache, city, temperature)

\* Mutation of Get: an absent key reads as the default value (unwrap_or_default).
Get_OrDefault(cache, key) ==
    IF key \in DOMAIN cache THEN Some(cache[key]) ELSE Some(0)

\* Mutation of Get: the key is not compared, any entry of the table answers.
Get_AnyEntry(cache, key) ==
    IF DOMAIN cache = {} THEN None ELSE Some(cache[CHOOSE c \in DOMAIN cache : TRUE])

\* results.get(key).copied()
Get(cache, key) ==
    IF key \in DOMAIN cache THEN Some(cache[key]) ELSE None

(* ---------------------------------------------------------------------- *)
(* StreamCache::new                                                        *)
(* ---------------------------------------------------------------------- *)

\* The instance new has built before it calls update_in_background: an empty
\* table behind a fresh Mutex, no task spawned yet.
Constructed ==
    /\ newPc = "constructed"
    /\ results = EmptyMap
    /\ lock = "none"
    /\ poisoned = FALSE
    /\ signal = FALSE
    /\ fetchPc = "unspawned"
    /\ fetchCalls = 0
    /\ initial_data = {}
    /\ subPc = "unspawned"
    /\ subscribeCalls = 0
    /\ updates = << >>
    /\ update = ErrUpdate
    /\ getPc = "idle"
    /\ getKey = "Tallin"
    /\ getRet = None
    /\ callPc = "idle"
    /\ fetchPc2 = "unspawned"
    /\ initial_data2 = {}
    /\ subPc2 = "unspawned"
    /\ updates2 = << >>
    /\ update2 = ErrUpdate

Init == api \in Apis /\ Constructed

FairInit == api \in FairApis /\ Constructed

\* Mutation of SpawnFetch: the subscribe task is spawned in place of the fetch task.
SpawnFetch_SubscribeFirst ==
    /\ newPc = "constructed"
    /\ newPc' = "fetch_spawned"
    /\ subPc' = "spawned"
    /\ UNCHANGED << api, againVars, tableVars, fetchVars, subscribeCalls, updates, update, signal,
                    getVars >>

\* update_in_background calls fetch_in_background, which spawns the fetch task.
SpawnFetch ==
    /\ newPc = "constructed"
    /\ newPc' = "fetch_spawned"
    /\ fetchPc' = "spawned"
    /\ UNCHANGED << api, againVars, tableVars, fetchCalls, initial_data, subVars, getVars >>

\* update_in_background calls subscribe_in_background, which spawns the
\* subscribe task.
SpawnSubscribe ==
    /\ newPc = "fetch_spawned"
    /\ newPc' = "subscribe_spawned"
    /\ subPc' = "spawned"
    /\ UNCHANGED << api, againVars, tableVars, fetchVars, subscribeCalls, updates, update, signal,
                    getVars >>

\* Mutation of NewReturn: new waits for the fetch task before it returns.
NewReturn_AwaitFetch ==
    /\ newPc = "subscribe_spawned"
    /\ fetchPc = "done"
    /\ newPc' = "returned"
    /\ UNCHANGED << api, againVars, tableVars, fetchVars, subVars, getVars >>

\* new returns the instance to its caller.
NewReturn ==
    /\ newPc = "subscribe_spawned"
    /\ newPc' = "returned"
    /\ UNCHANGED << api, againVars, tableVars, fetchVars, subVars, getVars >>

(* ---------------------------------------------------------------------- *)
(* The fetch task                                                          *)
(* ---------------------------------------------------------------------- *)

\* Mutation of FetchCall: the guard is taken before api.fetch() is awaited.
FetchCall_LockFirst ==
    /\ fetchPc = "spawned"
    /\ lock = "none"
    /\ lock' = "fetch"
    /\ fetchPc' = "awaiting"
    /\ fetchCalls' = fetchCalls + 1
    /\ UNCHANGED << newVars, results, poisoned, initial_data, subVars, getVars >>

\* The task is polled for the first time and invokes api.fetch().
FetchCall ==
    /\ fetchPc = "spawned"
    /\ fetchPc' = "awaiting"
    /\ fetchCalls' = fetchCalls + 1
    /\ UNCHANGED << newVars, tableVars, initial_data, subVars, getVars >>

\* Mutation of FetchMatch: a failed fetch is tried again.
FetchMatch_Retry(r) == IF r.ok THEN "lock" ELSE "spawned"

\* match api.fetch().await: where the task goes with the result.
FetchMatch(r) == IF r.ok THEN "lock" ELSE "done"

\* api.fetch() completes; TestApi's fetch completes only once it was notified,
\* and takes the permit.
FetchReturn ==
    /\ fetchPc = "awaiting"
    /\ api.signalled => signal
    /\ fetchPc' = FetchMatch(api.fetch)
    /\ initial_data' = IF api.fetch.ok THEN DOMAIN api.fetch.data ELSE {}
    /\ signal' = FALSE
    /\ UNCHANGED << newVars, tableVars, fetchCalls, subPc, subscribeCalls, updates, update,
                    getVars >>

\* results.lock().expect("poisoned")
FetchLock ==
    /\ fetchPc = "lock"
    /\ lock = "none"
    /\ IF poisoned
       THEN fetchPc' = "panicked" /\ lock' = lock
       ELSE fetchPc' = "inserting" /\ lock' = "fetch"
    /\ UNCHANGED << newVars, results, poisoned, fetchCalls, initial_data, subVars, getVars >>

\* Mutation of FetchInsert: the guard is taken inside the loop and dropped
\* after each or_insert.
FetchInsert_ReleaseEach ==
    /\ fetchPc = "inserting"
    /\ \E city \in initial_data :
        /\ results' = EntryOrInsert(results, city, api.fetch.data[city])
        /\ initial_data' = initial_data \ {city}
    /\ lock' = "none"
    /\ fetchPc' = "lock"
    /\ UNCHANGED << newVars, poisoned, fetchCalls, subVars, getVars >>

\* One iteration of `for (city, temperature) in initial_data`, in the
\* HashMap's (unspecified) iteration order.
FetchInsert ==
    /\ fetchPc = "inserting"
    /\ \E city \in initial_data :
        /\ results' = EntryOrInsert(results, city, api.fetch.data[city])
        /\ initial_data' = initial_data \ {city}
    /\ UNCHANGED << newVars, lock, poisoned, fetchPc, fetchCalls, subVars, getVars >>

\* The loop is over: the guard is dropped at the end of the Ok arm and the
\* task completes.
FetchUnlock ==
    /\ fetchPc = "inserting"
    /\ initial_data = {}
    /\ fetchPc' = "done"
    /\ lock' = "none"
    /\ UNCHANGED << newVars, results, poisoned, fetchCalls, initial_data, subVars, getVars >>

(* ---------------------------------------------------------------------- *)
(* The subscribe task                                                      *)
(* ---------------------------------------------------------------------- *)

\* Mutation of SubscribeCall: subscribe is invoked only once the fetch task is
\* done, as if the two were steps of one task.
SubscribeCall_AfterFetch ==
    /\ subPc = "spawned"
    /\ fetchPc = "done"
    /\ subPc' = "subscribing"
    /\ subscribeCalls' = subscribeCalls + 1
    /\ UNCHANGED << newVars, tableVars, fetchVars, updates, update, signal, getVars >>

\* The task is polled for the first time and invokes api.subscribe().
SubscribeCall ==
    /\ subPc = "spawned"
    /\ subPc' = "subscribing"
    /\ subscribeCalls' = subscribeCalls + 1
    /\ UNCHANGED << newVars, tableVars, fetchVars, updates, update, signal, getVars >>

\* api.subscribe().await completes with the stream.
SubscribeReturn ==
    /\ subPc = "subscribing"
    /\ subPc' = "next"
    /\ updates' = api.subscribe
    /\ UNCHANGED << newVars, tableVars, fetchVars, subscribeCalls, update, signal, getVars >>

\* Mutation of UpdateMatch: the loop is left at the first failed item.
UpdateMatch_StopOnErr(u) == IF u.ok THEN "lock" ELSE "done"

\* match update: where the task goes with a stream item.
UpdateMatch(u) == IF u.ok THEN "lock" ELSE "next"

\* updates.next().await yields Some(update). TestApi's stream is a select of
\* the four updates with a future that notifies the signal once, when the
\* select is polled for the second time.
NextSome ==
    /\ subPc = "next"
    /\ updates # << >>
    /\ update' = Head(updates)
    /\ updates' = Tail(updates)
    /\ subPc' = UpdateMatch(Head(updates))
    /\ signal' = (signal \/ (api.signalled /\ Len(updates) = Len(api.subscribe) - 1))
    /\ UNCHANGED << newVars, tableVars, fetchVars, subscribeCalls, getVars >>

\* Mutation of NextNone: the while loop is left although the stream is open.
NextNone_WhileOpen ==
    /\ subPc = "next"
    /\ subPc' = "done"
    /\ UNCHANGED << newVars, tableVars, fetchVars, subscribeCalls, updates, update, signal,
                    getVars >>

\* updates.next().await yields None: the stream is over and so is the task.
NextNone ==
    /\ subPc = "next"
    /\ updates = << >>
    /\ api.ends
    /\ subPc' = "done"
    /\ UNCHANGED << newVars, tableVars, fetchVars, subscribeCalls, updates, update, signal,
                    getVars >>

\* results.lock().expect("poisoned")
SubscribeLock ==
    /\ subPc = "lock"
    /\ lock = "none"
    /\ IF poisoned
       THEN subPc' = "panicked" /\ lock' = lock
       ELSE subPc' = "inserting" /\ lock' = "subscribe"
    /\ UNCHANGED << newVars, results, poisoned, fetchVars, subscribeCalls, updates, update,
                    signal, getVars >>

\* cache.insert(city, temperature); the guard is dropped at the end of the arm.
SubscribeInsert ==
    /\ subPc = "inserting"
    /\ results' = Insert(results, update.city, update.temperature)
    /\ lock' = "none"
    /\ subPc' = "next"
    /\ UNCHANGED << newVars, poisoned, fetchVars, subscribeCalls, updates, update, signal,
                    getVars >>

(* ---------------------------------------------------------------------- *)
(* StreamCache::get                                                        *)
(* ---------------------------------------------------------------------- *)

\* A caller that holds the instance calls get(key); the value a previous call
\* returned is out of scope.
GetCall ==
    /\ newPc = "returned"
    /\ getPc \in {"idle", "returned"}
    /\ \E key \in City : getKey' = key
    /\ getPc' = "lock"
    /\ getRet' = None
    /\ UNCHANGED << newVars, tableVars, fetchVars, subVars >>

\* Mutation of GetLock: get reads the table without waiting for the lock.
GetLock_Unguarded ==
    /\ getPc = "lock"
    /\ getPc' = "reading"
    /\ lock' = "get"
    /\ UNCHANGED << newVars, results, poisoned, fetchVars, subVars, getKey, getRet >>

\* self.results.lock().expect("poisoned")
GetLock ==
    /\ getPc = "lock"
    /\ lock = "none"
    /\ IF poisoned
       THEN getPc' = "panicked" /\ lock' = lock
       ELSE getPc' = "reading" /\ lock' = "get"
    /\ UNCHANGED << newVars, results, poisoned, fetchVars, subVars, getKey, getRet >>

\* results.get(key).copied(); the guard is dropped on return.
GetReturn ==
    /\ getPc = "reading"
    /\ getRet' = Get(results, getKey)
    /\ lock' = "none"
    /\ getPc' = "returned"
    /\ UNCHANGED << newVars, results, poisoned, fetchVars, subVars, getKey >>

(* ---------------------------------------------------------------------- *)
(* A further call of the public update_in_background                       *)
(* ---------------------------------------------------------------------- *)

\* Everything but the state of the further call, the table and the counters.
firstVars == << api, newPc, fetchPc, initial_data, subPc, updates, update, signal, getVars >>

\* A holder of the instance calls update_in_background with a handle to the
\* same source: fetch_in_background spawns another fetch task.
AgainSpawnFetch ==
    /\ newPc = "returned"
    /\ callPc = "idle"
    /\ callPc' = "fetch_spawned"
    /\ fetchPc2' = "spawned"
    /\ UNCHANGED << firstVars, tableVars, fetchCalls, subscribeCalls, initial_data2, subPc2,
                    updates2, update2 >>

\* subscribe_in_background spawns another subscribe task and the call returns.
AgainSpawnSubscribe ==
    /\ callPc = "fetch_spawned"
    /\ callPc' = "returned"
    /\ subPc2' = "spawned"
    /\ UNCHANGED << firstVars, tableVars, fetchCalls, subscribeCalls, fetchPc2, initial_data2,
                    updates2, update2 >>

\* The second fetch task invokes api.fetch().
Fetch2Call ==
    /\ fetchPc2 = "spawned"
    /\ fetchPc2' = "awaiting"
    /\ fetchCalls' = fetchCalls + 1
    /\ UNCHANGED << firstVars, tableVars, subscribeCalls, callPc, initial_data2, subPc2,
                    updates2, update2 >>

\* Its api.fetch() completes.
Fetch2Return ==
    /\ fetchPc2 = "awaiting"
    /\ fetchPc2' = FetchMatch(api.fetch)
    /\ initial_data2' = IF api.fetch.ok THEN DOMAIN api.fetch.data ELSE {}
    /\ UNCHANGED << firstVars, tableVars, fetchCalls, subscribeCalls, callPc, subPc2,
                    updates2, update2 >>

\* Its results.lock().expect("poisoned")
Fetch2Lock ==
    /\ fetchPc2 = "lock"
    /\ lock = "none"
    /\ IF poisoned
       THEN fetchPc2' = "panicked" /\ lock' = lock
       ELSE fetchPc2' = "inserting" /\ lock' = "fetch2"
    /\ UNCHANGED << firstVars, results, poisoned, fetchCalls, subscribeCalls, callPc,
                    initial_data2, subPc2, updates2, update2 >>

\* One iteration of its for loop.
Fetch2Insert ==
    /\ fetchPc2 = "inserting"
    /\ \E city \in initial_data2 :
        /\ results' = EntryOrInsert(results, city, api.fetch.data[city])
        /\ initial_data2' = initial_data2 \ {city}
    /\ UNCHANGED << firstVars, lock, poisoned, fetchCalls, subscribeCalls, callPc, fetchPc2,
                    subPc2, updates2, update2 >>

\* Its loop is over: the guard is dropped and the task completes.
Fetch2Unlock ==
    /\ fetchPc2 = "inserting"
    /\ initial_data2 = {}
    /\ fetchPc2' = "done"
    /\ lock' = "none"
    /\ UNCHANGED << firstVars, results, poisoned, fetchCalls, subscribeCalls, callPc,
                    initial_data2, subPc2, updates2, update2 >>

\* The second subscribe task invokes api.subscribe().
Subscribe2Call ==
    /\ subPc2 = "spawned"
    /\ subPc2' = "subscribing"
    /\ subscribeCalls' = subscribeCalls + 1
    /\ UNCHANGED << firstVars, tableVars, fetchCalls, callPc, fetchPc2, initial_data2,
                    updates2, update2 >>

\* Its api.subscribe().await completes with a stream of its own.
Subscribe2Return ==
    /\ subPc2 = "subscribing"
    /\ subPc2' = "next"
    /\ updates2' = api.subscribe
    /\ UNCHANGED << firstVars, tableVars, fetchCalls, subscribeCalls, callPc, fetchPc2,
                    initial_data2, update2 >>

\* Its updates.next().await yields Some(update).
Next2Some ==
    /\ subPc2 = "next"
    /\ updates2 # << >>
    /\ update2' = Head(updates2)
    /\ updates2' = Tail(updates2)
    /\ subPc2' = UpdateMatch(Head(updates2))
    /\ UNCHANGED << firstVars, tableVars, fetchCalls, subscribeCalls, callPc, fetchPc2,
                    initial_data2 >>

\* Its updates.next().await yields None.
Next2None ==
    /\ subPc2 = "next"
    /\ updates2 = << >>
    /\ api.ends
    /\ subPc2' = "done"
    /\ UNCHANGED << firstVars, tableVars, fetchCalls, subscribeCalls, callPc, fetchPc2,
                    initial_data2, updates2, update2 >>

\* Its results.lock().expect("poisoned")
Subscribe2Lock ==
    /\ subPc2 = "lock"
    /\ lock = "none"
    /\ IF poisoned
       THEN subPc2' = "panicked" /\ lock' = lock
       ELSE subPc2' = "inserting" /\ lock' = "subscribe2"
    /\ UNCHANGED << firstVars, results, poisoned, fetchCalls, subscribeCalls, callPc, fetchPc2,
                    initial_data2, updates2, update2 >>

\* Its cache.insert(city, temperature); the guard is dropped.
Subscribe2Insert ==
    /\ subPc2 = "inserting"
    /\ results' = Insert(results, update2.city, update2.temperature)
    /\ lock' = "none"
    /\ subPc2' = "next"
    /\ UNCHANGED << firstVars, poisoned, fetchCalls, subscribeCalls, callPc, fetchPc2,
                    initial_data2, updates2, update2 >>

(* ---------------------------------------------------------------------- *)
(* Specification                                                           *)
(* ---------------------------------------------------------------------- *)

Next ==
    \/ SpawnFetch
    \/ SpawnSubscribe
    \/ NewReturn
    \/ FetchCall
    \/ FetchReturn
    \/ FetchLock
    \/ FetchInsert
    \/ FetchUnlock
    \/ SubscribeCall
    \/ SubscribeReturn
    \/ NextSome
    \/ NextNone
    \/ SubscribeLock
    \/ SubscribeInsert
    \/ GetCall
    \/ GetLock
    \/ GetReturn

Spec == Init /\ [][Next]_vars

\* Scheduling: the runtime polls a spawned task that can run, synchronous code
\* runs on, and a thread or task blocked on the Mutex gets it when it is
\* released again and again. Nothing is assumed of the Api (when fetch,
\* subscribe or next complete) nor of the callers of get.
Fairness ==
    /\ WF_vars(SpawnFetch)
    /\ WF_vars(SpawnSubscribe)
    /\ WF_vars(NewReturn)
    /\ WF_vars(FetchCall)
    /\ SF_vars(FetchLock)
    /\ WF_vars(FetchInsert)
    /\ WF_vars(FetchUnlock)
    /\ WF_vars(SubscribeCall)
    /\ WF_vars(NextNone)
    /\ SF_vars(SubscribeLock)
    /\ WF_vars(SubscribeInsert)
    /\ SF_vars(GetLock)
    /\ WF_vars(GetReturn)

FairSpec == FairInit /\ [][Next]_vars /\ Fairness

\* The instance with its public methods: new, get, and update_in_background
\* called once more by a holder of the instance.
PubApis == ApiFamily(FairCities, ApiTemperatures, MaxFairStream)

PubInit == api \in PubApis /\ Constructed

PubNext ==
    \/ Next
    \/ AgainSpawnFetch
    \/ AgainSpawnSubscribe
    \/ Fetch2Call
    \/ Fetch2Return
    \/ Fetch2Lock
    \/ Fetch2Insert
    \/ Fetch2Unlock
    \/ Subscribe2Call
    \/ Subscribe2Return
    \/ Next2Some
    \/ Next2None
    \/ Subscribe2Lock
    \/ Subscribe2Insert

PubSpec == PubInit /\ [][PubNext]_vars

(* ---------------------------------------------------------------------- *)
(* Vocabulary of the properties                                            *)
(* ---------------------------------------------------------------------- *)

\* Number of items the stream has yielded to the subscribe task so far.
Yielded ==
    IF subPc \in {"unspawned", "spawned", "subscribing"}
    THEN 0
    ELSE Len(api.subscribe) - Len(updates)

\* Number of items the subscribe task has finished with: an Ok item counts
\* once its insert is done, an Err item once it has been reported.
Applied ==
    IF subPc \in {"lock", "inserting", "panicked"} THEN Yielded - 1 ELSE Yielded

\* Indices of the successful items for city among the first n of the stream.
OkUpdates(city, n) ==
    {i \in 1..n : api.subscribe[i].ok /\ api.subscribe[i].city = city}

\* Index of the last successful item for city among the first n (0: none).
LastOkUpdate(city, n) ==
    IF OkUpdates(city, n) = {} THEN 0
    ELSE CHOOSE i \in OkUpdates(city, n) : \A j \in OkUpdates(city, n) : j <= i

\* The fetch result holds an entry for city.
InSnapshot(city) == api.fetch.ok /\ city \in DOMAIN api.fetch.data

\* What the fetch result holds for city.
SnapshotValue(city) == IF InSnapshot(city) THEN Some(api.fetch.data[city]) ELSE None

\* The fetch task has completed its pass over a successful fetch result.
SnapshotApplied == api.fetch.ok /\ fetchPc = "done"

\* The stream has yielded all its items and the subscribe task is done with them.
StreamDrained ==
    /\ subPc \in {"next", "done"}
    /\ updates = << >>

(* ---------------------------------------------------------------------- *)
(* C1                                                                      *)
(* ---------------------------------------------------------------------- *)

\* C1: every step taken while the fetch task applies a successful fetch
\* result keeps each entry already in the table at its value and adds only
\* entries of the snapshot, with the snapshot's value; when the pass ends
\* every key of the snapshot is in the table.
C1_SnapshotInsertIfAbsent ==
    [][ fetchPc = "inserting" =>
          /\ \A c \in DOMAIN results :
                c \in DOMAIN results' /\ results'[c] = results[c]
          /\ \A c \in DOMAIN results' \ DOMAIN results :
                InSnapshot(c) /\ results'[c] = api.fetch.data[c]
          /\ fetchPc' = "done" => DOMAIN api.fetch.data \subseteq DOMAIN results'
      ]_vars

\* C1 witness: the pass over the snapshot has visited every entry, one of
\* its keys had two stream items applied before and kept the stream's value,
\* and another of its keys was inserted.
C1_Witness ==
    /\ fetchPc = "inserting"
    /\ initial_data = {}
    /\ \E c \in DOMAIN api.fetch.data :
          /\ Cardinality(OkUpdates(c, Applied)) >= 2
          /\ results[c] # api.fetch.data[c]
    /\ \E c \in DOMAIN api.fetch.data :
          /\ OkUpdates(c, Applied) = {}
          /\ results[c] = api.fetch.data[c]

(* ---------------------------------------------------------------------- *)
(* C2                                                                      *)
(* ---------------------------------------------------------------------- *)

\* C2: in every state, a city for which a successful stream item has been
\* applied reads as the value of the last such item applied, whatever the
\* fetch task has done before or after.
C2_StreamPrecedence ==
    \A c \in City :
        LastOkUpdate(c, Applied) > 0 =>
            Get(results, c) = Some(api.subscribe[LastOkUpdate(c, Applied)].temperature)

\* C2 witness: the snapshot, holding another value for the city, has been
\* applied and the city reads as the stream's value.
C2_Witness ==
    /\ SnapshotApplied
    /\ \E c \in DOMAIN api.fetch.data :
          /\ LastOkUpdate(c, Applied) > 0
          /\ api.fetch.data[c] # api.subscribe[LastOkUpdate(c, Applied)].temperature
          /\ Get(results, c) = Some(api.subscribe[LastOkUpdate(c, Applied)].temperature)

(* ---------------------------------------------------------------------- *)
(* C3                                                                      *)
(* ---------------------------------------------------------------------- *)

\* What a city reads as once the snapshot and n items of the stream are in:
\* the last successful stream item for it, else the snapshot's entry, else
\* nothing.
Merged(city, n) ==
    IF LastOkUpdate(city, n) > 0 THEN Some(api.subscribe[LastOkUpdate(city, n)].temperature)
    ELSE SnapshotValue(city)

\* C3: once the snapshot has been applied and every stream item has been
\* processed, in whatever interleaving, each city reads as the last successful
\* stream item for it, else as the snapshot's entry, else as absent; for
\* TestApi that is Berlin 29, London 27, Paris 32, Riga 19 and no Tallin.
C3_FinalTable ==
    (SnapshotApplied /\ StreamDrained) =>
        /\ \A c \in City : Get(results, c) = Merged(c, Len(api.subscribe))
        /\ api = TestApi =>
              /\ Get(results, "Berlin") = Some(29)
              /\ Get(results, "London") = Some(27)
              /\ Get(results, "Paris") = Some(32)
              /\ Get(results, "Riga") = Some(19)
              /\ Get(results, "Tallin") = None

\* C3 witness: TestApi's snapshot has been applied and its four updates have
\* been processed.
C3_Witness ==
    /\ api = TestApi
    /\ SnapshotApplied
    /\ StreamDrained
    /\ DOMAIN results = {"Berlin", "London", "Paris", "Riga"}

(* ---------------------------------------------------------------------- *)
(* C4                                                                      *)
(* ---------------------------------------------------------------------- *)

\* C4: the subscribe task finishes with the items of the stream one at a
\* time and in stream order, each successful item overwriting its city's entry
\* and nothing else; and once the stream is drained, a city with successful
\* items reads as the last of them.
C4_StreamOrder ==
    /\ [][ Applied' # Applied =>
             /\ Applied' = Applied + 1
             /\ LET u == api.subscribe[Applied'] IN
                  IF u.ok
                  THEN /\ DOMAIN results' = DOMAIN results \cup {u.city}
                       /\ results'[u.city] = u.temperature
                       /\ \A c \in DOMAIN results \ {u.city} : results'[c] = results[c]
                  ELSE results' = results
         ]_vars
    /\ [](StreamDrained =>
            \A c \in City :
                LET last == LastOkUpdate(c, Len(api.subscribe)) IN
                last > 0 => Get(results, c) = Some(api.subscribe[last].temperature))

\* C4 witness: the stream held two successful items with different values
\* for one city, both have been applied, and the city reads as the second.
C4_Witness ==
    /\ StreamDrained
    /\ \E c \in City :
          LET ups == OkUpdates(c, Len(api.subscribe))
              last == LastOkUpdate(c, Len(api.subscribe))
          IN /\ Cardinality(ups) >= 2
             /\ \E i \in ups : api.subscribe[i].temperature # api.subscribe[last].temperature
             /\ Get(results, c) = Some(api.subscribe[last].temperature)

(* ---------------------------------------------------------------------- *)
(* C5                                                                      *)
(* ---------------------------------------------------------------------- *)

\* fetch has returned Ok to the fetch task.
FetchSucceeded == api.fetch.ok /\ fetchPc \in {"lock", "inserting", "done"}

StreamValue(city, n) ==
    IF LastOkUpdate(city, n) > 0
    THEN Some(api.subscribe[LastOkUpdate(city, n)].temperature)
    ELSE None

\* C6: the table is empty until a task writes, so every city reads as
\* absent as long as the fetch task has not begun its pass and no stream item
\* has been applied; in every state a city that is neither in a snapshot
\* being or having been applied nor in a successful stream item applied so
\* far reads as absent, and a get that returned a value was for a city of the
\* applied snapshot or of an applied successful stream item.
C6_Absence ==
    /\ (fetchPc \notin {"inserting", "done"} /\ Applied = 0) =>
          \A c \in City : Get(results, c) = None
    /\ \A c \in City :
          (/\ ~(InSnapshot(c) /\ fetchPc \in {"inserting", "done"})
           /\ OkUpdates(c, Applied) = {}) =>
              Get(results, c) = None
    /\ (getPc = "returned" /\ getRet # None) =>
          \/ InSnapshot(getKey) /\ SnapshotApplied
          \/ OkUpdates(getKey, Applied) # {}

\* C6 witness: with the snapshot applied and stream items applied, the table
\* is not empty and a get for a city in neither has returned absent.
C6_Witness ==
    /\ SnapshotApplied
    /\ Applied >= 1
    /\ DOMAIN results # {}
    /\ getPc = "returned"
    /\ getRet = None
    /\ ~InSnapshot(getKey)
    /\ OkUpdates(getKey, Applied) = {}

(* ---------------------------------------------------------------------- *)
(* C7                                                                      *)
(* ---------------------------------------------------------------------- *)

\* C7: when fetch fails the fetch task never takes the lock nor writes, the
\* table holds exactly what the stream items applied so far give, fetch is
\* invoked once only, and the task, once done, stays done.
C7_FetchFailed ==
    /\ [](~api.fetch.ok =>
            /\ fetchPc \in {"unspawned", "spawned", "awaiting", "done"}
            /\ lock # "fetch"
            /\ fetchCalls <= 1
            /\ \A c \in City : Get(results, c) = StreamValue(c, Applied))
    /\ [][ (~api.fetch.ok /\ fetchPc = "awaiting" /\ fetchPc' # "awaiting") =>
              (fetchPc' = "done" /\ results' = results) ]_vars
    /\ [][ (~api.fetch.ok /\ fetchPc = "done") =>
              (fetchPc' = "done" /\ fetchCalls' = fetchCalls) ]_vars

\* C7 witness: fetch has failed, the fetch task is done, and the stream,
\* processed to its end, has left an entry in the table.
C7_Witness ==
    /\ ~api.fetch.ok
    /\ fetchPc = "done"
    /\ StreamDrained
    /\ DOMAIN results # {}
    /\ \A c \in City : Get(results, c) = StreamValue(c, Len(api.subscribe))

(* ---------------------------------------------------------------------- *)
(* C8                                                                      *)
(* ---------------------------------------------------------------------- *)

\* Some item before the i-th of the stream is a failure.
AfterFailure(i) == \E j \in 1..(i - 1) : ~api.subscribe[j].ok

\* C8: the step in which the subscribe task finishes with a failed item
\* leaves the table as it is and the task waiting for the next item; the task
\* is done only when the stream has ended, with nothing left in it; and a
\* city whose last applied successful item came after a failed one reads as
\* that item.
C8_StreamElementFailed ==
    /\ [][ (Applied' = Applied + 1 /\ ~api.subscribe[Applied'].ok) =>
              (results' = results /\ subPc' = "next") ]_vars
    /\ [](subPc = "done" => (api.ends /\ updates = << >>))
    /\ [](\A c \in City :
            (LastOkUpdate(c, Applied) > 0 /\ AfterFailure(LastOkUpdate(c, Applied))) =>
                Get(results, c) = StreamValue(c, Applied))

\* C8 witness: the stream began with a failed item, the subscribe task went
\* on and applied a successful item that followed it.
C8_Witness ==
    /\ Len(api.subscribe) >= 2
    /\ ~api.subscribe[1].ok
    /\ \E c \in City :
          /\ LastOkUpdate(c, Applied) > 1
          /\ Get(results, c) = StreamValue(c, Applied)

(* ---------------------------------------------------------------------- *)
(* C9                                                                      *)
(* ---------------------------------------------------------------------- *)

\* The values written for city so far: its snapshot value once the fetch
\* task has begun its pass, and the values of the successful stream items for
\* it the stream has yielded.
Written(city) ==
    (IF InSnapshot(city) /\ fetchPc \in {"inserting", "done"}
     THEN {api.fetch.data[city]} ELSE {})
    \cup {api.subscribe[i].temperature : i \in OkUpdates(city, Yielded)}

\* C9: in every state each entry of the table is for a city of the source
\* and holds a value written for that city, and a get that has returned gave
\* absent or a value written for its key.
C9_NoInventedReads ==
    /\ \A c \in DOMAIN results : c \in City /\ results[c] \in Written(c)
    /\ getPc = "returned" =>
          (getRet = None \/ (getRet.some /\ getRet.value \in Written(getKey)))

\* C9 witness: a get has returned a value while the table holds another
\* value for another city and the fetch task is inside its pass.
C9_Witness ==
    /\ getPc = "returned"
    /\ getRet.some
    /\ fetchPc = "inserting"
    /\ \E c \in DOMAIN results : c # getKey /\ results[c] \notin Written(getKey)

(* ---------------------------------------------------------------------- *)
(* C10                                                                     *)
(* ---------------------------------------------------------------------- *)

C11_Original_EmptyAtReturn ==
    [][ (newPc # "returned" /\ newPc' = "returned") => results' = EmptyMap ]_vars

\* C11 as amended: the table is empty when new has built it; each step of
\* new can be taken whatever the two tasks and the Api have or have not done,
\* new returns once both tasks have been spawned and has no failing step, and
\* under fair scheduling it does return, whether fetch fails, never returns,
\* or the stream yields only failures. The table may already hold entries
\* of the tasks when new returns.
C11_NewReturnsWithoutWaiting ==
    /\ [](newPc = "constructed" => results = EmptyMap)
    /\ [](/\ newPc = "constructed" => ENABLED SpawnFetch
          /\ newPc = "fetch_spawned" => ENABLED SpawnSubscribe
          /\ newPc = "subscribe_spawned" => ENABLED NewReturn)
    /\ [][ (newPc # "returned" /\ newPc' = "returned") =>
              (fetchPc' # "unspawned" /\ subPc' # "unspawned") ]_vars
    /\ <>(newPc = "returned")

\* C11 witness: new has returned while neither task has been polled yet,
\* for an Api whose fetch fails and whose stream yields a failure only.
C11_Witness ==
    /\ newPc = "returned"
    /\ fetchPc = "spawned"
    /\ subPc = "spawned"
    /\ results = EmptyMap
    /\ ~api.fetch.ok
    /\ api.subscribe = << ErrUpdate >>

(* ---------------------------------------------------------------------- *)
(* C12                                                                     *)
(* ---------------------------------------------------------------------- *)

\* C12: no step removes a key from the table; and a key for which a get has
\* returned a value is in the table, so that no later get for it returns
\* absent.
C12_NeverRemoved ==
    /\ [][ DOMAIN results \subseteq DOMAIN results' ]_vars
    /\ []((getPc = "returned" /\ getRet.some) => getKey \in DOMAIN results)

\* C12 witness: the table holds two entries, one of them overwritten by the
\* stream after the snapshot's pass, and a get has returned a value.
C12_Witness ==
    /\ SnapshotApplied
    /\ Cardinality(DOMAIN results) >= 2
    /\ \E c \in DOMAIN results : InSnapshot(c) /\ Get(results, c) # SnapshotValue(c)
    /\ getPc = "returned"
    /\ getRet.some

(* ---------------------------------------------------------------------- *)
(* C13                                                                     *)
(* ---------------------------------------------------------------------- *)

\* A step of new, of one of the two tasks or of the Api, or the end of a get
\* that holds the lock.
Progress ==
    \/ SpawnFetch \/ SpawnSubscribe \/ NewReturn
    \/ FetchCall \/ FetchReturn \/ FetchLock \/ FetchInsert \/ FetchUnlock
    \/ SubscribeCall \/ SubscribeReturn \/ NextSome \/ NextNone
    \/ SubscribeLock \/ SubscribeInsert
    \/ GetReturn

SnapshotPartlyApplied ==
    /\ api.fetch.ok
    /\ fetchPc \in {"lock", "inserting"}
    /\ initial_data # {}
    /\ initial_data # DOMAIN api.fetch.data

\* C14 as stated: the fetch task holds the lock for one insert at a time,
\* so the lock is not held by it between the insertions of two entries of
\* the snapshot.
C14_Original_OneInsertAtATime ==
    SnapshotPartlyApplied => lock # "fetch"

\* C14 as amended: the lock is never held across an await: a task waiting
\* for fetch, subscribe or the next stream item holds no guard; get drops
\* its guard after one lookup, which leaves the table as it is; the
\* subscribe task drops its guard after one overwrite; the fetch task keeps
\* one guard from before its first or_insert until after its last.
C14_LockScope ==
    /\ [](/\ fetchPc \in {"unspawned", "spawned", "awaiting", "lock", "done"} => lock # "fetch"
          /\ subPc \in {"unspawned", "spawned", "subscribing", "next", "lock", "done"}
                => lock # "subscribe"
          /\ getPc \in {"idle", "lock", "returned"} => lock # "get")
    /\ [][ lock = "get" =>
              /\ results' = results
              /\ lock' # "get" => (lock' = "none" /\ getPc' = "returned") ]_vars
    /\ [][ lock = "subscribe" =>
              IF lock' = "subscribe"
              THEN results' = results
              ELSE /\ lock' = "none"
                   /\ subPc' = "next"
                   /\ results'[update.city] = update.temperature
                   /\ \A c \in DOMAIN results \ {update.city} : results'[c] = results[c] ]_vars
    /\ [][ lock = "fetch" =>
              /\ initial_data # {} => lock' = "fetch"
              /\ lock' # "fetch" => (lock' = "none" /\ fetchPc' = "done") ]_vars

\* C14 witness: the fetch task holds the lock with one entry of a two-entry
\* snapshot inserted, while a get and the subscribe task wait for the lock.
C14_Witness ==
    /\ SnapshotPartlyApplied
    /\ lock = "fetch"
    /\ getPc = "lock"
    /\ subPc = "lock"

(* ---------------------------------------------------------------------- *)
(* C15                                                                     *)
(* ---------------------------------------------------------------------- *)

\* C15: whatever public operations are called on the instance, the
\* source's fetch and subscribe are each invoked at most once, exactly once
\* when the task that invokes it has been polled, and at most one pass over
\* a fetch result is made on the instance's table.
C15_FetchAndSubscribeOnce ==
    /\ fetchCalls <= 1
    /\ subscribeCalls <= 1
    /\ fetchPc \in {"awaiting", "lock", "inserting", "done"} => fetchCalls = 1
    /\ subPc \in {"subscribing", "next", "lock", "inserting", "done"} => subscribeCalls = 1
    /\ fetchPc2 \notin {"lock", "inserting", "done"}

(* ---------------------------------------------------------------------- *)
(* C16                                                                     *)
(* ---------------------------------------------------------------------- *)

\* The stream has yielded None or will at the next poll: the source's
\* sequence is over.
StreamEnded == api.ends /\ updates = << >> /\ subPc \in {"next", "lock", "inserting", "done"}

Phase(pc) == IF pc = "unspawned" THEN 0 ELSE IF pc = "done" THEN 2 ELSE 1

\* A step of one of the two tasks.
Activity ==
    \/ FetchCall \/ FetchReturn \/ FetchLock \/ FetchInsert \/ FetchUnlock
    \/ SubscribeCall \/ SubscribeReturn \/ NextSome \/ NextNone
    \/ SubscribeLock \/ SubscribeInsert

\* C17 as stated: the subscribe task is never done while the fetch task is
\* still in flight.
C17_Original_StreamDoneLast == subPc = "done" => fetchPc = "done"

\* C17: each activity goes from idle to in flight to done and never back,
\* the snapshot activity is started first and the stream activity before new
\* returns, the two complete in either order, no task step is possible once
\* both are done, and the tasks come to rest only with the snapshot done and
\* the stream done or open with nothing to yield.
C17_Lifecycle ==
    /\ [](Phase(subPc) > 0 => Phase(fetchPc) > 0)
    /\ [](newPc = "returned" => Phase(subPc) > 0)
    /\ [][ /\ Phase(fetchPc') \in {Phase(fetchPc), Phase(fetchPc) + 1}
           /\ Phase(subPc') \in {Phase(subPc), Phase(subPc) + 1} ]_vars
    /\ []((Phase(fetchPc) = 2 /\ Phase(subPc) = 2) => ~ENABLED Activity)
    /\ []((newPc = "returned" /\ lock # "get" /\ ~ENABLED Activity) =>
              /\ Phase(fetchPc) = 2
              /\ \/ Phase(subPc) = 2
                 \/ ~api.ends /\ subPc = "next" /\ updates = << >>)

\* The stream has ended and its task is done while fetch has not returned.
C17_Witness ==
    /\ subPc = "done"
    /\ fetchPc = "awaiting"
    /\ newPc = "returned"

(* ---------------------------------------------------------------------- *)
(* C18                                                                     *)
(* ---------------------------------------------------------------------- *)

\* Every city of the snapshot has an entry in the table.
SnapshotAllIn == \A c \in DOMAIN api.fetch.data : c \in DOMAIN results

\* No entry of the table comes from the snapshot: each city of the snapshot
\* that has an entry has it from an applied stream item.
SnapshotNoneIn ==
    \A c \in DOMAIN api.fetch.data : c \in DOMAIN results => OkUpdates(c, Applied) # {}

\* C18: from the first to the last insertion of a snapshot the fetch task
\* holds the lock, so in between no get reads, no get returns, no stream
\* item is inserted and only the fetch task's insertions change the table;
\* whenever a get reads, the snapshot's cities are either all in the table or
\* in it only as far as the stream has put them there.
C18_SnapshotAtomic ==
    /\ [](SnapshotPartlyApplied =>
              /\ lock = "fetch"
              /\ fetchPc = "inserting"
              /\ getPc # "reading"
              /\ subPc # "inserting")
    /\ [][ (SnapshotPartlyApplied /\ getPc # "returned") => getPc' # "returned" ]_vars
    /\ [][ (SnapshotPartlyApplied /\ results' # results) =>
              /\ fetchPc' = "inserting"
              /\ initial_data' # initial_data
              /\ Applied' = Applied ]_vars
    /\ []((getPc = "reading" /\ api.fetch.ok) => (SnapshotAllIn \/ SnapshotNoneIn))

\* The pass over a snapshot of two cities is half done, one city inserted
\* from the snapshot and the other still absent, with a get and a stream item
\* waiting for the lock.
C18_Witness ==
    /\ SnapshotPartlyApplied
    /\ ~SnapshotAllIn
    /\ ~SnapshotNoneIn
    /\ getPc = "lock"
    /\ subPc = "lock"

(* ---------------------------------------------------------------------- *)
(* C19                                                                     *)
(* ---------------------------------------------------------------------- *)

\* Who is inside a critical section of the table, by position in the code.
Holders ==
    {h \in {"fetch", "subscribe", "get"} :
        \/ h = "fetch" /\ fetchPc = "inserting"
        \/ h = "subscribe" /\ subPc = "inserting"
        \/ h = "get" /\ getPc = "reading"}

\* The next step of whoever holds the lock.
HolderStep == FetchInsert \/ FetchUnlock \/ SubscribeInsert \/ GetReturn

====
